---- MODULE Spec2Model ----
(***************************************************************************)
(* A model of the disgo key-value server (src/app/main.go): the RESP       *)
(* decoder, the command handlers, the mutex-guarded store Kv, the expiry   *)
(* sweeper goroutine and the per-connection loop handleClient.             *)
(*                                                                         *)
(* Strings are sequences of bytes (ASCII codes), so that ToUpper, Atoi,    *)
(* Fields and the frame decoder are computed byte by byte as the code      *)
(* computes them.  Instants and durations are in milliseconds.             *)
(***************************************************************************)
EXTENDS Integers, Sequences, FiniteSets, TLC

VARIABLES
    now,      \* the wall clock read by time.Now(), in ms
    data,     \* Kv.data  : map[string]string
    exp,      \* Kv.exp   : map[string]time.Time
    lists,    \* Kv.lists : map[string][]string
    mu,       \* Kv.mu    : the holder of the mutex, or Free
    pc,       \* per connection: the position of its handleClient goroutine
    inbuf,    \* per connection: the bytes the client still sends, then end-of-stream
    cmd,      \* per connection: the result of the last readRespArray
    op,       \* per connection: the Kv method the handler is calling
    tmp,      \* per connection: the slice read by the append in progress
    ret,      \* per connection: the value the Kv method / handler returned
    out,      \* per connection: the replies written to the socket so far
    why,      \* per connection: why handleClient returned ("" while it runs)
    crashed,  \* TRUE once a goroutine panicked: the whole process is gone
    sw,       \* the sweeper goroutine: its position, its now, the keys left to range over
    obs,      \* per connection: history variables used to state the properties
    hv        \* history variables: plain (keys last written by a SET without TTL), hist (the lists as the pushes
              \* were applied), plan (the frames each client sends), nread (reads done), failed (a write failed),
              \* ref (the scalar store as it would be with no sweeper), refret (what a Get returns on ref),
              \* pass (the scalar store as the sweeper's pass found it), last (for each key not deleted
              \* since, the last SetWithTTL: its value, its ttl, the clock it read when ttl > 0, whether
              \* the key had an expiration entry), lens (for each key the lengths n that the pushes
              \* returned, in order, each with the number k of values pushed)

vars == <<now, data, exp, lists, mu, pc, inbuf, cmd, op, tmp, ret, out, why, crashed, sw, obs, hv>>

(***************************************************************************)
(* Bytes and strings                                                       *)
(***************************************************************************)
CR == 13
LF == 10
SP == 32
Star == 42
Dollar == 36
Plus == 43
Minus == 45
Digit0 == 48

sPING == <<80, 73, 78, 71>>
sECHO == <<69, 67, 72, 79>>
sSET == <<83, 69, 84>>
sGET == <<71, 69, 84>>
sRPUSH == <<82, 80, 85, 83, 72>>
sLPUSH == <<76, 80, 85, 83, 72>>
sLRANGE == <<76, 82, 65, 78, 71, 69>>
sPX == <<80, 88>>
sEX == <<69, 88>>

\* durations in the model's unit (1 ms)
Millisecond == 1
Second == 1000

\* strings.ToUpper on one byte and on a string (ASCII)
UpperByte(b) == IF b >= 97 /\ b <= 122 THEN b - 32 ELSE b

ToUpper(s) == [i \in 1..Len(s) |-> UpperByte(s[i])]

IsDigit(b) == b >= Digit0 /\ b <= Digit0 + 9

RECURSIVE DigitsVal(_, _)
DigitsVal(s, acc) ==
    IF s = <<>> THEN acc ELSE DigitsVal(Tail(s), acc * 10 + (Head(s) - Digit0))

\* strconv.Atoi: an optional sign, then one or more decimal digits
Atoi(s) ==
    LET signed == s # <<>> /\ (s[1] = Plus \/ s[1] = Minus)
        digits == IF signed THEN Tail(s) ELSE s
    IN  IF digits = <<>> \/ \E i \in 1..Len(digits) : ~IsDigit(digits[i])
        THEN [ok |-> FALSE, val |-> 0]
        ELSE [ok |-> TRUE,
              val |-> IF signed /\ s[1] = Minus THEN 0 - DigitsVal(digits, 0)
                      ELSE DigitsVal(digits, 0)]

\* strconv.Itoa, used by the frame encoder
RECURSIVE ItoaNat(_)
ItoaNat(n) ==
    IF n < 10 THEN <<Digit0 + n>> ELSE Append(ItoaNat(n \div 10), Digit0 + (n % 10))

Itoa(n) == IF n < 0 THEN <<Minus>> \o ItoaNat(0 - n) ELSE ItoaNat(n)

IsSpace(b) == b \in {SP, 9, LF, 11, 12, CR}

\* strings.Fields: the maximal runs of non-space bytes
RECURSIVE FieldsFrom(_, _, _)
FieldsFrom(s, cur, acc) ==
    IF s = <<>> THEN (IF cur = <<>> THEN acc ELSE Append(acc, cur))
    ELSE IF IsSpace(Head(s))
         THEN FieldsFrom(Tail(s), <<>>, IF cur = <<>> THEN acc ELSE Append(acc, cur))
         ELSE FieldsFrom(Tail(s), Append(cur, Head(s)), acc)

Fields(s) == FieldsFrom(s, <<>>, <<>>)

(***************************************************************************)
(* The decoder.  A reader is the sequence of bytes not yet consumed; the   *)
(* stream ends after them (the client has closed its side).                *)
(***************************************************************************)
\* index of the first LF in s, 0 when there is none
IndexLF(s) ==
    IF \E i \in 1..Len(s) : s[i] = LF
    THEN CHOOSE i \in 1..Len(s) : s[i] = LF /\ \A j \in 1..(i - 1) : s[j] # LF
    ELSE 0

Rest(s, n) == SubSeq(s, n + 1, Len(s))

\* readLineCRLF: ReadBytes('\n'), then the CR check
readLineCRLF(s) ==
    LET n == IndexLF(s)
    IN  IF n = 0 THEN [err |-> "EOF", line |-> <<>>, rest |-> <<>>]
        ELSE IF n < 2 \/ s[n - 1] # CR
             THEN [err |-> "line does not end with CRLF", line |-> <<>>, rest |-> Rest(s, n)]
             ELSE [err |-> "", line |-> SubSeq(s, 1, n - 2), rest |-> Rest(s, n)]

Failed(e, s) == [kind |-> "err", err |-> e, args |-> <<>>, rest |-> s]
Panicked(e, s) == [kind |-> "panic", err |-> e, args |-> <<>>, rest |-> s]
Decoded(a, s) == [kind |-> "ok", err |-> "", args |-> a, rest |-> s]

\* the bytes of a bulk element: buf[:length]
BulkPayloadWithCRLF(buf, length) == buf

BulkPayload(buf, length) == SubSeq(buf, 1, length)

\* the loop over the declared elements (main.go 250-277)
RECURSIVE readElements(_, _, _)
readElements(s, n, args) ==
    IF n = 0 THEN Decoded(args, s)
    ELSE LET l == readLineCRLF(s)
         IN  IF l.err # "" THEN Failed(l.err, l.rest)
             ELSE IF l.line = <<>>
                  THEN Panicked("index out of range", l.rest)       \* line[0] of ""
             ELSE IF l.line[1] # Dollar THEN Failed("expected bulk string", l.rest)
             ELSE LET length == Atoi(Tail(l.line))
                  IN  IF ~length.ok THEN Failed("invalid bulk string length", l.rest)
                      ELSE IF length.val < 0
                           THEN readElements(l.rest, n - 1, Append(args, <<>>))
                      ELSE IF Len(l.rest) < length.val + 2               \* io.ReadFull
                           THEN Failed(IF l.rest = <<>> THEN "EOF" ELSE "unexpected EOF", <<>>)
                      ELSE LET buf == SubSeq(l.rest, 1, length.val + 2)
                           IN  IF buf[length.val + 1] # CR \/ buf[length.val + 2] # LF
                               THEN Failed("bulk string does not end with CRLF",
                                           Rest(l.rest, length.val + 2))
                               ELSE readElements(Rest(l.rest, length.val + 2), n - 1,
                                                 Append(args, BulkPayload(buf, length.val)))

\* readRespArray (main.go 234-289)
readRespArray(s) ==
    IF s = <<>> THEN Failed("EOF", s)                                    \* r.Peek(1)
    ELSE IF s[1] = Star
    THEN LET header == readLineCRLF(s)
         IN  IF header.err # "" THEN Failed(header.err, header.rest)
             ELSE LET count == Atoi(Tail(header.line))
                  IN  IF ~count.ok THEN Failed("invalid array length", header.rest)
                      ELSE IF count.val < 0
                           THEN Panicked("makeslice: cap out of range", header.rest)
                      ELSE readElements(header.rest, count.val, <<>>)
    ELSE LET line == readLineCRLF(s)
         IN  IF line.err # "" THEN Failed(line.err, line.rest)
             ELSE Decoded(Fields(line.line), line.rest)

(***************************************************************************)
(* Values                                                                  *)
(***************************************************************************)
Conns == {"c1", "c2"}
Free == "free"
Sweeper == "sweeper"

\* one record shape for what a Kv method returns and for a RespValue:
\* t is the variant, s a string, n an integer, items a list, e an error text
Val(t, s, n, items, e) == [t |-> t, s |-> s, n |-> n, items |-> items, e |-> e]
NoVal == Val("", <<>>, 0, <<>>, "")
\* Kv method results
Found(s) == Val("some", s, 0, <<>>, "")
NotFound == Val("none", <<>>, 0, <<>>, "")
Length(n) == Val("len", <<>>, n, <<>>, "")
Slice(items) == Val("slice", <<>>, 0, items, "")
Void == Val("void", <<>>, 0, <<>>, "")
\* RespValue variants (main.go 20-24), and the error reply lines 345 and 353
Nil == Val("nil", <<>>, 0, <<>>, "")
SimpleString(s) == Val("simple", s, 0, <<>>, "")
BulkString(s) == Val("bulk", s, 0, <<>>, "")
integer(n) == Val("int", <<>>, n, <<>>, "")
Array(items) == Val("array", <<>>, 0, items, "")
ErrorReply(e) == Val("error", <<>>, 0, <<>>, e)

sOK == <<79, 75>>
sPONG == <<80, 79, 78, 71>>

\* a call of a Kv method: f the method, vals its values, a and b its numbers
Call(f, key, vals, a, b) == [f |-> f, key |-> key, vals |-> vals, a |-> a, b |-> b]
NoCall == Call("none", <<>>, <<>>, 0, 0)

\* what a handler does: fail with err, or call a Kv method, or answer resp
HErr(e) == [err |-> e, call |-> NoCall, resp |-> NoVal]
HCall(c) == [err |-> "", call |-> c, resp |-> NoVal]
HResp(r) == [err |-> "", call |-> NoCall, resp |-> r]

\* Go maps
Put(m, k, v) == [x \in DOMAIN m \cup {k} |-> IF x = k THEN v ELSE m[x]]
Del(m, k) == [x \in DOMAIN m \ {k} |-> m[x]]
EmptyMap == <<>>
\* m[k] of a map of slices: nil when k is absent
SliceAt(m, k) == IF k \in DOMAIN m THEN m[k] ELSE <<>>

(***************************************************************************)
(* The handlers (main.go 100-175)                                          *)
(***************************************************************************)
ping(args) ==
    IF Len(args) = 0 THEN HResp(SimpleString(sPONG)) ELSE HResp(BulkString(args[1]))

echo(args) ==
    IF Len(args) # 1 THEN HErr("ECHO requires exactly one argument")
    ELSE HResp(BulkString(args[1]))

getAtLeastOne(args) ==
    IF Len(args) < 1 THEN HErr("GET requires exactly one argument")
    ELSE HCall(Call("Get", args[1], <<>>, 0, 0))

get(args) ==
    IF Len(args) # 1 THEN HErr("GET requires exactly one argument")
    ELSE HCall(Call("Get", args[1], <<>>, 0, 0))

\* the option loop of set, from index i (1-based) with the ttl so far
RECURSIVE setOptionsSkipUnknown(_, _, _)
setOptionsSkipUnknown(args, i, ttl) ==
    IF i > Len(args) THEN [err |-> "", ttl |-> ttl]
    ELSE LET option == ToUpper(args[i])
         IN  IF option = sPX /\ i + 1 <= Len(args)
             THEN LET ms == Atoi(args[i + 1])
                  IN  IF ~ms.ok THEN [err |-> "invalid PX value", ttl |-> 0]
                      ELSE setOptionsSkipUnknown(args, i + 2, ms.val * Millisecond)
             ELSE IF option = sEX /\ i + 1 <= Len(args)
             THEN LET seconds == Atoi(args[i + 1])
                  IN  IF ~seconds.ok THEN [err |-> "invalid EX value", ttl |-> 0]
                      ELSE setOptionsSkipUnknown(args, i + 2, seconds.val * Second)
             ELSE setOptionsSkipUnknown(args, i + 1, ttl)

RECURSIVE setOptions(_, _, _)
setOptions(args, i, ttl) ==
    IF i > Len(args) THEN [err |-> "", ttl |-> ttl]
    ELSE LET option == ToUpper(args[i])
         IN  IF option = sPX /\ i + 1 <= Len(args)
             THEN LET ms == Atoi(args[i + 1])
                  IN  IF ~ms.ok THEN [err |-> "invalid PX value", ttl |-> 0]
                      ELSE setOptions(args, i + 2, ms.val * Millisecond)
             ELSE IF option = sEX /\ i + 1 <= Len(args)
             THEN LET seconds == Atoi(args[i + 1])
                  IN  IF ~seconds.ok THEN [err |-> "invalid EX value", ttl |-> 0]
                      ELSE setOptions(args, i + 2, seconds.val * Second)
             ELSE [err |-> "invalid SET option", ttl |-> 0]

set(args) ==
    IF Len(args) < 2 THEN HErr("SET requires atleast two arguments")
    ELSE LET o == setOptions(args, 3, 0)
         IN  IF o.err # "" THEN HErr(o.err)
             ELSE HCall(Call("SetWithTTL", args[1], <<args[2]>>, o.ttl, 0))

rpush(args) ==
    IF Len(args) < 2 THEN HErr("RPUSH requires at least two arguments")
    ELSE HCall(Call("RPush", args[1], Tail(args), 0, 0))

\* LPUSH and LRANGE: their handlers and Kv methods are not in src/ (only the
\* tests that call Kv.LPush and Kv.LRange are); modelled from the specification
lpush(args) ==
    IF Len(args) < 2 THEN HErr("LPUSH requires at least two arguments")
    ELSE HCall(Call("LPush", args[1], Tail(args), 0, 0))

lrange(args) ==
    IF Len(args) # 3 THEN HErr("LRANGE requires exactly three arguments")
    ELSE LET start == Atoi(args[2])
             stop == Atoi(args[3])
         IN  IF ~start.ok \/ ~stop.ok THEN HErr("invalid LRANGE index")
             ELSE HCall(Call("LRange", args[1], <<>>, start.val, stop.val))

\* the handlers map (main.go 90-96), with the two spec-modelled entries
HandlerNames == {sPING, sECHO, sSET, sGET, sRPUSH, sLPUSH, sLRANGE}

handlers(name, args) ==
    CASE name = sPING -> ping(args)
      [] name = sECHO -> echo(args)
      [] name = sSET -> set(args)
      [] name = sGET -> get(args)
      [] name = sRPUSH -> rpush(args)
      [] name = sLPUSH -> lpush(args)
      [] name = sLRANGE -> lrange(args)

\* what the handler returns once its Kv method has returned r
HandlerResp(f, r) ==
    CASE f = "Get" -> IF r.t = "some" THEN BulkString(r.s) ELSE Nil
      [] f = "SetWithTTL" -> SimpleString(sOK)
      [] f = "RPush" -> integer(r.n)
      [] f = "LPush" -> integer(r.n)
      [] f = "LRange" -> Array(r.items)

(***************************************************************************)
(* The frames a client sends.  A frame is described by its elements and a  *)
(* form: "plain" is the array-mode frame of section 4.1, "null" sends the  *)
(* element number at as $-1, "inline" is the inline line, and the other    *)
(* forms break the frame at element number at (or at its header).          *)
(***************************************************************************)
CRLF == <<CR, LF>>

EncodeBulk(s, form) ==
    CASE form = "null" -> <<Dollar, Minus, Digit0 + 1>> \o CRLF
      [] form = "elem_lf" -> <<Dollar>> \o Itoa(Len(s)) \o <<LF>> \o s \o CRLF
      [] form = "no_dollar" -> <<Plus>> \o Itoa(Len(s)) \o CRLF \o s \o CRLF
      [] form = "empty_hdr" -> CRLF \o s \o CRLF
      [] form = "short" -> <<Dollar>> \o Itoa(Len(s) + 1) \o CRLF \o s \o CRLF
      [] form = "long" -> <<Dollar>> \o Itoa(Len(s) - 1) \o CRLF \o s \o CRLF
      [] form = "no_crlf" -> <<Dollar>> \o Itoa(Len(s)) \o CRLF \o s \o <<LF, CR>>
      [] OTHER -> <<Dollar>> \o Itoa(Len(s)) \o CRLF \o s \o CRLF

RECURSIVE EncodeElems(_, _, _, _)
EncodeElems(elems, i, form, at) ==
    IF i > Len(elems) THEN <<>>
    ELSE EncodeBulk(elems[i], IF i = at THEN form ELSE "plain")
         \o EncodeElems(elems, i + 1, form, at)

RECURSIVE JoinSP(_)
JoinSP(elems) ==
    IF elems = <<>> THEN <<>>
    ELSE IF Len(elems) = 1 THEN elems[1]
    ELSE elems[1] \o <<SP>> \o JoinSP(Tail(elems))

EncodeFrame(f) ==
    CASE f.form = "inline" -> JoinSP(f.elems) \o CRLF
      [] f.form = "neg_count" -> <<Star, Minus, Digit0 + 1>> \o CRLF
      [] f.form = "hdr_lf" ->
            <<Star>> \o Itoa(Len(f.elems)) \o <<LF>> \o EncodeElems(f.elems, 1, "plain", 0)
      [] OTHER ->
            <<Star>> \o Itoa(Len(f.elems)) \o CRLF \o EncodeElems(f.elems, 1, f.form, f.at)

RECURSIVE EncodePlan(_)
EncodePlan(frames) ==
    IF frames = <<>> THEN <<>> ELSE EncodeFrame(Head(frames)) \o EncodePlan(Tail(frames))

Frame(elems, form, at, label) == [elems |-> elems, form |-> form, at |-> at, label |-> label]

(***************************************************************************)
(* Bounds                                                                  *)
(***************************************************************************)
MaxTime == 2
MaxList == 3
MaxOpts == 2
MaxFrames == 2
MaxArgs == 3

(***************************************************************************)
(* The initial state: NewKv(), the sweeper asleep, every connection        *)
(* accepted and about to read                                              *)
(***************************************************************************)
NoObs == [seen |-> "", cls |-> "", touched |-> FALSE, prev |-> <<>>]
SwIdle == [pc |-> "sleep", now |-> 0, todo |-> {}, cur |-> <<>>]
NoCmd == Decoded(<<>>, <<>>)

\* a value table with its expiration index, and the result of a Get on one
Store(d, e) == [data |-> d, exp |-> e]
NoStore == Store(EmptyMap, EmptyMap)
RefRet(r, lazy) == [ret |-> r, lazy |-> lazy]
NoRef == RefRet(NoVal, FALSE)

NewKv ==
    /\ data = EmptyMap
    /\ exp = EmptyMap
    /\ lists = EmptyMap
    /\ mu = Free

\* plans: for every connection the frames its client sends, then closes
InitWith(plans) ==
    /\ NewKv
    /\ now = 0
    /\ pc = [c \in Conns |-> "read"]
    /\ \E p \in plans :
          /\ inbuf = [c \in Conns |-> EncodePlan(p[c])]
          /\ hv = [plain |-> EmptyMap, hist |-> EmptyMap, plan |-> p,
                   nread |-> [c \in Conns |-> 0], failed |-> [c \in Conns |-> FALSE],
                   ref |-> NoStore, refret |-> [c \in Conns |-> NoRef], pass |-> NoStore,
                   last |-> EmptyMap, lens |-> EmptyMap]
    /\ cmd = [c \in Conns |-> NoCmd]
    /\ op = [c \in Conns |-> NoCall]
    /\ tmp = [c \in Conns |-> <<>>]
    /\ ret = [c \in Conns |-> NoVal]
    /\ out = [c \in Conns |-> <<>>]
    /\ why = [c \in Conns |-> ""]
    /\ crashed = FALSE
    /\ sw = SwIdle
    /\ obs = [c \in Conns |-> NoObs]

(***************************************************************************)
(* handleClient (main.go 320-375)                                          *)
(***************************************************************************)
\* where handleClient goes after an error reply: back to the read loop
AfterCommandErrorClose == "closed"

AfterCommandError == "read"

\* where handleClient goes after an empty command (lines 337-340): back to the read loop
OnEmptyCommandClose == "closed"

OnEmptyCommand == "read"

\* lines 329-357 for the result d of readRespArray: the error checks, the
\* handler lookup and the handler's own checks, up to the call of a Kv method
Serve(c, d) ==
    /\ ~crashed
    /\ pc[c] = "read"
    /\ LET name == ToUpper(d.args[1])
           h == handlers(name, Tail(d.args))
       IN  IF d.kind = "panic"
           THEN /\ crashed' = TRUE
                /\ UNCHANGED <<pc, op, ret, why>>
           ELSE IF d.kind = "err"
           THEN /\ pc' = [pc EXCEPT ![c] = "closed"]
                /\ why' = [why EXCEPT ![c] = IF d.err = "EOF" THEN "eof" ELSE "framing"]
                /\ UNCHANGED <<op, ret, crashed>>
           ELSE IF Len(d.args) = 0
           THEN /\ pc' = [pc EXCEPT ![c] = OnEmptyCommand]
                /\ UNCHANGED <<op, ret, why, crashed>>
           ELSE IF name \notin HandlerNames
           THEN /\ ret' = [ret EXCEPT ![c] = ErrorReply("unknown command")]
                /\ pc' = [pc EXCEPT ![c] = "write"]
                /\ UNCHANGED <<op, why, crashed>>
           ELSE IF h.err # ""
           THEN /\ ret' = [ret EXCEPT ![c] = ErrorReply(h.err)]
                /\ pc' = [pc EXCEPT ![c] = "write"]
                /\ UNCHANGED <<op, why, crashed>>
           ELSE IF h.call # NoCall
           THEN /\ op' = [op EXCEPT ![c] = h.call]
                /\ pc' = [pc EXCEPT ![c] = "lock"]
                /\ UNCHANGED <<ret, why, crashed>>
           ELSE /\ ret' = [ret EXCEPT ![c] = h.resp]
                /\ pc' = [pc EXCEPT ![c] = "write"]
                /\ UNCHANGED <<op, why, crashed>>
    /\ UNCHANGED <<now, data, exp, lists, mu, tmp, sw>>

\* a client sends one frame that decodes to in.args (the decoder abstracted)
Request(c, in) ==
    /\ Serve(c, Decoded(in.args, <<>>))
    /\ cmd' = [cmd EXCEPT ![c] = Decoded(in.args, <<>>)]
    /\ obs' = [obs EXCEPT ![c] = [NoObs EXCEPT !.cls = in.cls]]
    /\ UNCHANGED <<inbuf, out, hv>>

\* line 327: args, err := readRespArray(r), on the bytes the client sent
ReadFrame(c) ==
    /\ LET d == readRespArray(inbuf[c])
       IN  /\ Serve(c, d)
           /\ cmd' = [cmd EXCEPT ![c] = d]
           /\ inbuf' = [inbuf EXCEPT ![c] = d.rest]
    /\ obs' = [obs EXCEPT ![c] = NoObs]
    /\ hv' = [hv EXCEPT !.nread[c] = @ + 1]
    /\ UNCHANGED out

\* lines 345-348, 353-356 (an error reply: the write's result is not looked at)
\* and 359-366 (writeResp and Flush, whose failure ends the task); kept says
\* whether the reply stays in out or the client has read it off the socket
WriteReply(c, fails, kept) ==
    /\ ~crashed
    /\ pc[c] = "write"
    /\ hv.failed[c] => fails                \* bufio.Writer keeps its first error
    /\ out' = [out EXCEPT ![c] = IF fails \/ ~kept THEN @ ELSE Append(@, ret[c])]
    /\ IF fails /\ ret[c].t # "error"
       THEN /\ pc' = [pc EXCEPT ![c] = "closed"]
            /\ why' = [why EXCEPT ![c] = "io"]
       ELSE /\ pc' = [pc EXCEPT ![c] = IF ret[c].t = "error" THEN AfterCommandError ELSE "read"]
            /\ UNCHANGED why
    /\ op' = [op EXCEPT ![c] = NoCall]
    /\ ret' = [ret EXCEPT ![c] = NoVal]
    /\ obs' = [obs EXCEPT ![c] = NoObs]
    /\ cmd' = [cmd EXCEPT ![c] = NoCmd]
    /\ hv' = [hv EXCEPT !.failed[c] = @ \/ fails, !.refret[c] = NoRef]
    /\ UNCHANGED <<now, data, exp, lists, mu, inbuf, tmp, crashed, sw>>

(***************************************************************************)
(* Kv.mu                                                                   *)
(***************************************************************************)
\* sync.Mutex.Lock returns only when nobody holds the mutex
CanLockUnguarded == TRUE

CanLock == mu = Free

IsWrite(f) == f \in {"SetWithTTL", "RPush", "LPush"}

FirstStep(f) ==
    CASE f = "SetWithTTL" -> "set46"
      [] f = "Get" -> "get65"
      [] f = "RPush" -> "rpush82r"
      [] f = "LPush" -> "lpush_r"
      [] f = "LRange" -> "lrange"

\* k.mu.Lock() at the head of every Kv method (lines 45, 61, 80)
Lock(c) ==
    /\ ~crashed
    /\ pc[c] = "lock"
    /\ CanLock
    /\ mu' = c
    /\ pc' = [pc EXCEPT ![c] = FirstStep(op[c].f)]
    /\ obs' = [obs EXCEPT ![c].prev = SliceAt(lists, op[c].key),
                          ![c].touched = IsWrite(op[c].f)]
    /\ hv' = [hv EXCEPT
                !.plain = IF IsWrite(op[c].f) THEN Del(@, op[c].key) ELSE @,
                !.hist = CASE op[c].f = "RPush" ->
                                Put(@, op[c].key, SliceAt(@, op[c].key) \o op[c].vals)
                           [] op[c].f = "LPush" ->
                                Put(@, op[c].key, op[c].vals \o SliceAt(@, op[c].key))
                           [] OTHER -> @]
    /\ UNCHANGED <<now, data, exp, lists, inbuf, cmd, op, tmp, ret, out, why, crashed, sw>>

\* the holder of the mutex after k.mu.Unlock()
AfterUnlockHeld(holder) == holder

AfterUnlock(holder) == Free

\* k.mu.Unlock() (line 52, and the deferred ones of lines 62 and 81); the method
\* returns and the handler turns its result into a RespValue
Unlock(c) ==
    /\ ~crashed
    /\ pc[c] = "unlock"
    /\ mu' = AfterUnlock(mu)
    /\ ret' = [ret EXCEPT ![c] = HandlerResp(op[c].f, @)]
    /\ pc' = [pc EXCEPT ![c] = "write"]
    /\ hv' = [hv EXCEPT !.plain = IF op[c].f = "SetWithTTL" /\ op[c].a <= 0
                                  THEN Put(@, op[c].key, op[c].vals[1]) ELSE @]
    /\ UNCHANGED <<now, data, exp, lists, inbuf, cmd, op, tmp, out, why, crashed, sw, obs>>

(***************************************************************************)
(* Kv.SetWithTTL (main.go 44-53)                                           *)
(***************************************************************************)
\* line 46: k.data[key] = value
SetData(c) ==
    /\ ~crashed
    /\ pc[c] = "set46"
    /\ data' = Put(data, op[c].key, op[c].vals[1])
    /\ pc' = [pc EXCEPT ![c] = "set47"]
    /\ hv' = [hv EXCEPT !.ref.data = Put(@, op[c].key, op[c].vals[1])]
    /\ UNCHANGED <<now, exp, lists, mu, inbuf, cmd, op, tmp, ret, out, why, crashed, sw, obs>>

\* lines 47-51: the expiration entry after a write with this ttl
ExpAfterSetKeepOld(e, key, ttl, t) == IF ttl > 0 THEN Put(e, key, t + ttl) ELSE e

ExpAfterSet(e, key, ttl, t) == IF ttl > 0 THEN Put(e, key, t + ttl) ELSE Del(e, key)

SetExp(c) ==
    /\ ~crashed
    /\ pc[c] = "set47"
    /\ exp' = ExpAfterSet(exp, op[c].key, op[c].a, now)
    /\ ret' = [ret EXCEPT ![c] = Void]
    /\ pc' = [pc EXCEPT ![c] = "unlock"]
    /\ hv' = [hv EXCEPT !.ref.exp = ExpAfterSet(@, op[c].key, op[c].a, now),
                        !.last = Put(@, op[c].key,
                                     [val |-> op[c].vals[1], ttl |-> op[c].a,
                                      at |-> IF op[c].a > 0 THEN now ELSE 0,
                                      stale |-> op[c].key \in DOMAIN exp])]
    /\ UNCHANGED <<now, data, lists, mu, inbuf, cmd, op, tmp, out, why, crashed, sw, obs>>

(***************************************************************************)
(* Kv.Get (main.go 60-75)                                                  *)
(***************************************************************************)
\* time.Time.After
AfterSwapped(t, u) == u > t

After(t, u) == t > u

\* how the key's recorded instant stands to the clock when Get reads it
Seen(e, key, t) ==
    IF key \notin DOMAIN e THEN "live"
    ELSE IF e[key] < t THEN "past"
    ELSE IF e[key] = t THEN "eq"
    ELSE "live"

\* lines 65-74 in one piece, on a store that no sweeper works on
GetOn(st, key, t) ==
    IF key \in DOMAIN st.exp /\ After(t, st.exp[key])
    THEN [store |-> Store(Del(st.data, key), Del(st.exp, key)), ret |-> RefRet(NotFound, TRUE)]
    ELSE [store |-> st,
          ret |-> RefRet(IF key \in DOMAIN st.data THEN Found(st.data[key]) ELSE NotFound, FALSE)]

\* lines 65-66: the expiration check
GetCheck(c) ==
    /\ ~crashed
    /\ pc[c] = "get65"
    /\ pc' = [pc EXCEPT ![c] = IF op[c].key \in DOMAIN exp /\ After(now, exp[op[c].key])
                               THEN "get68" ELSE "get73"]
    /\ obs' = [obs EXCEPT ![c].seen = Seen(exp, op[c].key, now)]
    /\ hv' = [hv EXCEPT !.ref = GetOn(@, op[c].key, now).store,
                        !.refret[c] = GetOn(hv.ref, op[c].key, now).ret]
    /\ UNCHANGED <<now, data, exp, lists, mu, inbuf, cmd, op, tmp, ret, out, why, crashed, sw>>

\* line 68: delete(k.data, key)
GetDelData(c) ==
    /\ ~crashed
    /\ pc[c] = "get68"
    /\ data' = Del(data, op[c].key)
    /\ pc' = [pc EXCEPT ![c] = "get69"]
    /\ UNCHANGED <<now, exp, lists, mu, inbuf, cmd, op, tmp, ret, out, why, crashed, sw, obs, hv>>

\* delete(k.exp, key) of line 69 and delete(kvStore.exp, k) of line 202
ExpWithoutKept(e, key) == e

ExpWithout(e, key) == Del(e, key)

\* lines 69-70: delete(k.exp, key); return "", false
GetDelExp(c) ==
    /\ ~crashed
    /\ pc[c] = "get69"
    /\ exp' = ExpWithout(exp, op[c].key)
    /\ ret' = [ret EXCEPT ![c] = NotFound]
    /\ pc' = [pc EXCEPT ![c] = "unlock"]
    /\ hv' = [hv EXCEPT !.last = Del(@, op[c].key)]
    /\ UNCHANGED <<now, data, lists, mu, inbuf, cmd, op, tmp, out, why, crashed, sw, obs>>

\* lines 73-74: val, ok := k.data[key]; return val, ok
GetRead(c) ==
    /\ ~crashed
    /\ pc[c] = "get73"
    /\ ret' = [ret EXCEPT ![c] = IF op[c].key \in DOMAIN data
                                 THEN Found(data[op[c].key]) ELSE NotFound]
    /\ pc' = [pc EXCEPT ![c] = "unlock"]
    /\ UNCHANGED <<now, data, exp, lists, mu, inbuf, cmd, op, tmp, out, why, crashed, sw, obs, hv>>

(***************************************************************************)
(* Kv.RPush (main.go 79-84)                                                *)
(***************************************************************************)
\* line 82, its right-hand side: the slice k.lists[key] is read
RPushRead(c) ==
    /\ ~crashed
    /\ pc[c] = "rpush82r"
    /\ tmp' = [tmp EXCEPT ![c] = SliceAt(lists, op[c].key)]
    /\ pc' = [pc EXCEPT ![c] = "rpush82w"]
    /\ UNCHANGED <<now, data, exp, lists, mu, inbuf, cmd, op, ret, out, why, crashed, sw, obs, hv>>

\* append(old, values...)
AppendFirstOnly(old, values) == Append(old, values[1])

AppendAll(old, values) == old \o values

\* line 82, the assignment: k.lists[key] = append(...)
RPushWrite(c) ==
    /\ ~crashed
    /\ pc[c] = "rpush82w"
    /\ lists' = Put(lists, op[c].key, AppendAll(tmp[c], op[c].vals))
    /\ tmp' = [tmp EXCEPT ![c] = <<>>]
    /\ pc' = [pc EXCEPT ![c] = "rpush83"]
    /\ UNCHANGED <<now, data, exp, mu, inbuf, cmd, op, ret, out, why, crashed, sw, obs, hv>>

\* line 83: return len(k.lists[key])
RPushLen(c) ==
    /\ ~crashed
    /\ pc[c] = "rpush83"
    /\ ret' = [ret EXCEPT ![c] = Length(Len(SliceAt(lists, op[c].key)))]
    /\ pc' = [pc EXCEPT ![c] = "unlock"]
    /\ hv' = [hv EXCEPT !.lens = Put(@, op[c].key,
                                     Append(SliceAt(@, op[c].key),
                                            [n |-> Len(SliceAt(lists, op[c].key)),
                                             k |-> Len(op[c].vals)]))]
    /\ UNCHANGED <<now, data, exp, lists, mu, inbuf, cmd, op, tmp, out, why, crashed, sw, obs>>

(***************************************************************************)
(* Kv.LPush and Kv.LRange: called by src/app/main_test.go, defined outside *)
(* src/; modelled from the specification (section 4.2)                     *)
(***************************************************************************)
LPushRead(c) ==
    /\ ~crashed
    /\ pc[c] = "lpush_r"
    /\ tmp' = [tmp EXCEPT ![c] = SliceAt(lists, op[c].key)]
    /\ pc' = [pc EXCEPT ![c] = "lpush_w"]
    /\ UNCHANGED <<now, data, exp, lists, mu, inbuf, cmd, op, ret, out, why, crashed, sw, obs, hv>>

RECURSIVE Reverse(_)
Reverse(s) == IF s = <<>> THEN <<>> ELSE Append(Reverse(Tail(s)), Head(s))

\* the values go in front of the list, in the order supplied
PrependReversed(old, values) == Reverse(values) \o old

Prepend(old, values) == values \o old

LPushWrite(c) ==
    /\ ~crashed
    /\ pc[c] = "lpush_w"
    /\ lists' = Put(lists, op[c].key, Prepend(tmp[c], op[c].vals))
    /\ tmp' = [tmp EXCEPT ![c] = <<>>]
    /\ pc' = [pc EXCEPT ![c] = "lpush_len"]
    /\ UNCHANGED <<now, data, exp, mu, inbuf, cmd, op, ret, out, why, crashed, sw, obs, hv>>

LPushLen(c) ==
    /\ ~crashed
    /\ pc[c] = "lpush_len"
    /\ ret' = [ret EXCEPT ![c] = Length(Len(SliceAt(lists, op[c].key)))]
    /\ pc' = [pc EXCEPT ![c] = "unlock"]
    /\ hv' = [hv EXCEPT !.lens = Put(@, op[c].key,
                                     Append(SliceAt(@, op[c].key),
                                            [n |-> Len(SliceAt(lists, op[c].key)),
                                             k |-> Len(op[c].vals)]))]
    /\ UNCHANGED <<now, data, exp, lists, mu, inbuf, cmd, op, tmp, out, why, crashed, sw, obs>>

\* a negative index counts from the end
FromEndIgnored(i, n) == i

FromEnd(i, n) == IF i < 0 THEN n + i ELSE i

\* an index clamped into [0, n-1]
Clamp(i, n) == IF i < 0 THEN 0 ELSE IF i > n - 1 THEN n - 1 ELSE i

LRangeOf(l, start, stop) ==
    LET n == Len(l)
    IN  IF n = 0 THEN <<>>
        ELSE LET s == Clamp(FromEnd(start, n), n)
                 e == Clamp(FromEnd(stop, n), n)
             IN  IF s > e THEN <<>> ELSE [i \in 1..(e - s + 1) |-> l[s + i]]

LRange(c) ==
    /\ ~crashed
    /\ pc[c] = "lrange"
    /\ ret' = [ret EXCEPT ![c] = Slice(LRangeOf(SliceAt(lists, op[c].key), op[c].a, op[c].b))]
    /\ pc' = [pc EXCEPT ![c] = "unlock"]
    /\ UNCHANGED <<now, data, exp, lists, mu, inbuf, cmd, op, tmp, out, why, crashed, sw, obs, hv>>

(***************************************************************************)
(* The expiry sweeper (main.go 193-207) and the clock                      *)
(***************************************************************************)
\* time passes
Tick ==
    /\ ~crashed
    /\ now < MaxTime
    /\ now' = now + 1
    /\ UNCHANGED <<data, exp, lists, mu, pc, inbuf, cmd, op, tmp, ret, out, why, crashed, sw, obs, hv>>

\* line 196-197: the ticker fires; now := time.Now()
SweepWake ==
    /\ ~crashed
    /\ sw.pc = "sleep"
    /\ sw' = [sw EXCEPT !.pc = "lock", !.now = now]
    /\ UNCHANGED <<now, data, exp, lists, mu, pc, inbuf, cmd, op, tmp, ret, out, why, crashed, obs, hv>>

\* line 198: kvStore.mu.Lock(); the range starts over the keys of exp
SweepLock ==
    /\ ~crashed
    /\ sw.pc = "lock"
    /\ CanLock
    /\ mu' = Sweeper
    /\ sw' = [sw EXCEPT !.pc = "range", !.todo = DOMAIN exp]
    /\ hv' = [hv EXCEPT !.pass = Store(data, exp)]
    /\ UNCHANGED <<now, data, exp, lists, pc, inbuf, cmd, op, tmp, ret, out, why, crashed, obs>>

\* line 200: now.After(exp), with the now of line 197
EvictAlways(t, u) == TRUE

Evict(t, u) == After(t, u)

\* lines 199-200: the next key of the range (in any order) and its check
SweepVisit(k) ==
    /\ ~crashed
    /\ sw.pc = "range"
    /\ k \in sw.todo \cap DOMAIN exp
    /\ sw' = IF Evict(sw.now, exp[k])
             THEN [sw EXCEPT !.pc = "del201", !.cur = k, !.todo = @ \ {k}]
             ELSE [sw EXCEPT !.todo = @ \ {k}]
    /\ UNCHANGED <<now, data, exp, lists, mu, pc, inbuf, cmd, op, tmp, ret, out, why, crashed, obs, hv>>

\* line 201: delete(kvStore.data, k)
SweepDelData ==
    /\ ~crashed
    /\ sw.pc = "del201"
    /\ data' = Del(data, sw.cur)
    /\ sw' = [sw EXCEPT !.pc = "del202"]
    /\ UNCHANGED <<now, exp, lists, mu, pc, inbuf, cmd, op, tmp, ret, out, why, crashed, obs, hv>>

\* line 202: delete(kvStore.exp, k)
SweepDelExp ==
    /\ ~crashed
    /\ sw.pc = "del202"
    /\ exp' = ExpWithout(exp, sw.cur)
    /\ sw' = [sw EXCEPT !.pc = "range", !.cur = <<>>]
    /\ hv' = [hv EXCEPT !.last = Del(@, sw.cur)]
    /\ UNCHANGED <<now, data, lists, mu, pc, inbuf, cmd, op, tmp, ret, out, why, crashed, obs>>

\* line 205: the range is over; kvStore.mu.Unlock()
SweepUnlock ==
    /\ ~crashed
    /\ sw.pc = "range"
    /\ sw.todo \cap DOMAIN exp = {}
    /\ mu' = AfterUnlock(mu)
    /\ sw' = SwIdle
    /\ hv' = [hv EXCEPT !.pass = NoStore]
    /\ UNCHANGED <<now, data, exp, lists, pc, inbuf, cmd, op, tmp, ret, out, why, crashed, obs>>

\* the steps of SetWithTTL and Get, from Lock to Unlock
ScalarStep(c) ==
    \/ Lock(c)
    \/ SetData(c)
    \/ SetExp(c)
    \/ GetCheck(c)
    \/ GetRead(c)
    \/ Unlock(c)

\* the steps of Get on an expired key
ExpiryStep(c) ==
    \/ GetDelData(c)
    \/ GetDelExp(c)

RPushStep(c) ==
    \/ RPushRead(c)
    \/ RPushWrite(c)
    \/ RPushLen(c)

ListStep(c) ==
    \/ LPushRead(c)
    \/ LPushWrite(c)
    \/ LPushLen(c)
    \/ LRange(c)

SweepStep ==
    \/ SweepWake
    \/ SweepLock
    \/ \E k \in DOMAIN exp : SweepVisit(k)
    \/ SweepDelData
    \/ SweepDelExp
    \/ SweepUnlock

(***************************************************************************)
(* The store under concurrent clients: SET (with and without PX) and GET   *)
(* from two connections, the sweeper and the clock                         *)
(***************************************************************************)
Keys == {<<97>>, <<98>>}
Vals == {<<120>>, <<121>>}
sGetLower == <<103, 101, 116>>
sPxLower == <<112, 120>>

In(args, cls) == [args |-> args, cls |-> cls]

\* the first connection works on both keys, the second competes for one of them
InputsKv(c) ==
    IF c = "c1"
    THEN {In(<<sSET, k, v>>, "plain") : k \in Keys, v \in Vals}
         \cup {In(<<sSET, k, <<120>>, sPxLower, <<49>>>>, "ttl") : k \in Keys}
         \cup {In(<<sGetLower, k>>, "get") : k \in Keys}
    ELSE {In(<<sSET, <<97>>, <<121>>>>, "plain"),
          In(<<sSET, <<97>>, <<120>>, sPX, <<49>>>>, "ttl"),
          In(<<sGET, <<97>>>>, "get")}

\* the list a push would grow stays within the bound
Fits(in) ==
    ToUpper(in.args[1]) \in {sRPUSH, sLPUSH} =>
        Len(SliceAt(lists, in.args[2])) + Len(in.args) - 2 <= MaxList

\* no byte streams: the commands arrive already decoded
NoPlans == {[c \in Conns |-> <<>>]}

Init == InitWith(NoPlans)

Next ==
    \/ \E c \in Conns : \E in \in InputsKv(c) : Request(c, in)
    \/ \E c \in Conns : ScalarStep(c)
    \/ \E c \in Conns : ExpiryStep(c)
    \/ \E c \in Conns : WriteReply(c, FALSE, FALSE)
    \/ SweepStep
    \/ Tick

Spec == Init /\ [][Next]_vars

(***************************************************************************)
(* Properties of the scalar store                                          *)
(***************************************************************************)
\* a Get that has computed its result and still holds the mutex
GetDone(c) == pc[c] = "unlock" /\ op[c].f = "Get"

\* C1, as amended: a GET(k) that reads the clock when k's recorded expiration
\* instant is strictly before now returns None and leaves k in neither the value
\* table nor the expiration index, whether or not the sweeper has run; at the
\* instant exactly equal to now k has not expired yet and GET returns its value
C1_LazyExpiryStrictlyAfter ==
    \A c \in Conns :
        /\ GetDone(c) /\ obs[c].seen = "past" =>
              /\ ret[c] = NotFound
              /\ op[c].key \notin DOMAIN data
              /\ op[c].key \notin DOMAIN exp
        /\ GetDone(c) /\ obs[c].seen = "eq" =>
              /\ ret[c].t = "some"
              /\ op[c].key \in DOMAIN exp

\* C1, as stated: the same for a recorded instant <= now, the instant equal
\* to now included
C1_LazyExpiryAtOrBefore ==
    \A c \in Conns :
        GetDone(c) /\ obs[c].seen \in {"past", "eq"} =>
            /\ ret[c] = NotFound
            /\ op[c].key \notin DOMAIN data
            /\ op[c].key \notin DOMAIN exp

\* a GET found the key expired and removed it while the sweeper was asleep
C1_Witness ==
    \E c \in Conns :
        /\ GetDone(c) /\ obs[c].seen = "past"
        /\ ret[c] = NotFound
        /\ sw.pc = "sleep"

\* C2: once a SET(k, v) without TTL has completed, and until another write to k
\* takes the mutex, every GET(k) returns Some(v), whatever the clock, the
\* sweeper and the other connections do
C2_NoSpuriousExpiry ==
    \A c \in Conns :
        GetDone(c) /\ op[c].key \in DOMAIN hv.plain =>
            ret[c] = Found(hv.plain[op[c].key])

\* a GET returns the value of a SET without TTL after the clock has reached its
\* bound, while the other key carries an expiration entry
C2_Witness ==
    \E c \in Conns :
        /\ GetDone(c) /\ op[c].key \in DOMAIN hv.plain
        /\ ret[c] = Found(hv.plain[op[c].key])
        /\ now = MaxTime
        /\ DOMAIN exp # {}

\* the keys the sweeper's pass has removed so far
Swept == DOMAIN hv.pass.exp \ DOMAIN exp

\* C11: every GET returns what it would return had the sweeper never run; and
\* a pass of the sweeper removes only keys whose recorded instant is <= now,
\* from the value table and from the expiration index, and leaves every other
\* key with its value and its expiration entry
C11_SweeperRedundant ==
    /\ \A c \in Conns : GetDone(c) => ret[c] = hv.refret[c].ret
    /\ mu = Sweeper =>
          /\ \A k \in Swept : hv.pass.exp[k] <= now /\ k \notin DOMAIN data
          /\ sw.pc \in {"del201", "del202"} => hv.pass.exp[sw.cur] <= now
          /\ exp = [k \in DOMAIN hv.pass.exp \ Swept |-> hv.pass.exp[k]]
          /\ LET gone == Swept \cup (IF sw.pc = "del202" THEN {sw.cur} ELSE {})
             IN  data = [k \in DOMAIN hv.pass.data \ gone |-> hv.pass.data[k]]

\* a GET misses a key that the sweeper has removed and that the store without
\* sweeper removes only now
C11_Witness ==
    \E c \in Conns :
        /\ GetDone(c) /\ ret[c] = NotFound
        /\ hv.refret[c].lazy /\ obs[c].seen = "live"

\* the sweeper is in a pass that has removed one key and kept another
C11_PassWitness ==
    /\ mu = Sweeper /\ sw.pc = "range"
    /\ Swept # {} /\ DOMAIN exp # {}

\* somebody holds the mutex and is between two of its writes to key k
Midwrite(k) ==
    \/ \E c \in Conns : pc[c] \in {"set47", "get69"} /\ op[c].key = k
    \/ sw.pc = "del202" /\ sw.cur = k

\* somebody holds the mutex and has decided to delete key k
Deleting(k) ==
    \/ \E c \in Conns : pc[c] \in {"get68", "get69"} /\ op[c].key = k
    \/ sw.pc \in {"del201", "del202"} /\ sw.cur = k

\* C13: once a SET(k, v, ttl) has completed, k is governed by that SET alone:
\* with ttl > 0 the expiration index holds for k the clock the SET read plus
\* ttl, and k is deleted only when that instant has passed; with no TTL or
\* ttl <= 0 k has no expiration entry, keeps its value and is never deleted,
\* whatever instant an earlier SET recorded and however SETs, GETs and the
\* sweeper interleave
C13_OverwriteGovernsExpiry ==
    /\ \A k \in DOMAIN hv.last :
          LET l == hv.last[k]
          IN  /\ ~Midwrite(k) =>
                    /\ k \in DOMAIN data /\ data[k] = l.val
                    /\ IF l.ttl > 0 THEN k \in DOMAIN exp /\ exp[k] = l.at + l.ttl
                       ELSE k \notin DOMAIN exp
              /\ Deleting(k) => (l.ttl > 0 /\ l.at + l.ttl < now)
    /\ \A k \in (DOMAIN data \cup DOMAIN exp) \ DOMAIN hv.last : Midwrite(k)

\* a GET returns the value of a SET without TTL that replaced a key with an
\* expiration entry, after that entry's instant has passed and the sweeper
\* has woken with the later clock
C13_Witness ==
    \E c \in Conns :
        /\ GetDone(c) /\ op[c].key \in DOMAIN hv.last
        /\ hv.last[op[c].key].stale /\ hv.last[op[c].key].ttl <= 0
        /\ ret[c] = Found(hv.last[op[c].key].val)
        /\ now = MaxTime /\ sw.now = MaxTime

(***************************************************************************)
(* The lists under concurrent clients: RPUSH, LPUSH and LRANGE on one key  *)
(* from two connections, and SET and GET on the same key                   *)
(***************************************************************************)
kL == <<108>>
vX == <<120>>
vY == <<121>>
vZ == <<122>>
vW == <<119>>
Indices == {0 - 100, 0 - 2, 0 - 1, 0, 1, 2, 5}

InputsList(c) ==
    IF c = "c1"
    THEN {In(<<sRPUSH, kL, vX>>, "push"), In(<<sRPUSH, kL, vX, vY>>, "push"),
          In(<<sLPUSH, kL, vX>>, "push"), In(<<sLPUSH, kL, vX, vY>>, "push"),
          In(<<sSET, kL, vX>>, "plain"), In(<<sGET, kL>>, "get")}
         \cup {In(<<sLRANGE, kL, Itoa(i), Itoa(j)>>, "range") : i \in Indices, j \in Indices}
    ELSE {In(<<sRPUSH, kL, vZ>>, "push"), In(<<sRPUSH, kL, vZ, vW>>, "push"),
          In(<<sLPUSH, kL, vZ, vW>>, "push")}

NextList ==
    \/ \E c \in Conns : \E in \in InputsList(c) : Fits(in) /\ Request(c, in)
    \/ \E c \in Conns : ScalarStep(c)
    \/ \E c \in Conns : RPushStep(c)
    \/ \E c \in Conns : ListStep(c)
    \/ \E c \in Conns : WriteReply(c, FALSE, FALSE)

SpecList == Init /\ [][NextList]_vars

(***************************************************************************)
(* Properties of the lists                                                 *)
(***************************************************************************)
\* a push that holds the mutex and has not yet stored its list
Midway(c) == pc[c] \in {"rpush82r", "rpush82w", "lpush_r", "lpush_w"}

Max2(a, b) == IF a > b THEN a ELSE b
Min2(a, b) == IF a < b THEN a ELSE b

\* C3: whenever no push is midway, the list at every key is the list obtained
\* by applying the RPUSH and LPUSH calls whole, one after the other, in the
\* order in which they took the mutex (so no value is lost, repeated or
\* interleaved with another call's values), and LRANGE(key, 0, -1) reads
\* exactly that list
C3_PushLinearizable ==
    /\ (\A c \in Conns : ~Midway(c)) =>
          \A k \in DOMAIN lists \cup DOMAIN hv.hist : SliceAt(lists, k) = SliceAt(hv.hist, k)
    /\ \A c \in Conns :
          pc[c] = "unlock" /\ op[c].f = "LRange" /\ op[c].a = 0 /\ op[c].b = 0 - 1 =>
              ret[c].items = SliceAt(hv.hist, op[c].key)

\* a multi-value push has just been applied to a list that holds the other
\* connection's values, while the other connection waits for the mutex with
\* its next push
C3_Witness ==
    /\ pc["c1"] = "rpush83" /\ Len(op["c1"].vals) = 2
    /\ pc["c2"] = "lock" /\ op["c2"].f \in {"RPush", "LPush"}
    /\ \E i \in 1..Len(SliceAt(lists, kL)) : lists[kL][i] = vZ
    /\ Len(SliceAt(lists, kL)) >= 3

\* C4, as stated: no key holds a scalar and a list at once
C4_OneValuePerKey == \A k \in DOMAIN data : k \notin DOMAIN lists

\* C8: when LPUSH(key, v1..vn) returns, the list is v1..vn followed by the
\* content the list had when the call took the mutex, and the call returns the
\* length of that list
C8_LPushFront ==
    \A c \in Conns :
        pc[c] = "unlock" /\ op[c].f = "LPush" =>
            /\ SliceAt(lists, op[c].key) = op[c].vals \o obs[c].prev
            /\ ret[c] = Length(Len(op[c].vals) + Len(obs[c].prev))

\* an LPUSH of two values in front of a non-empty list returns
C8_Witness ==
    \E c \in Conns :
        /\ pc[c] = "unlock" /\ op[c].f = "LPush"
        /\ Len(op[c].vals) = 2 /\ op[c].vals[1] # op[c].vals[2]
        /\ obs[c].prev # <<>>

\* C9: LRANGE(key, start, stop) returns a list and no error; with n the length
\* of the list, lo and hi the bounds after counting negative ones from the end
\* and clamping into [0, n-1], the result is the elements lo..hi in order,
\* empty when lo > hi or the key is absent; LRANGE(key, -100, -1) is the list
C9_LRangeClamped ==
    \A c \in Conns :
        pc[c] = "unlock" /\ op[c].f = "LRange" =>
            LET l == SliceAt(lists, op[c].key)
                n == Len(l)
                at(i) == IF i < 0 THEN n + i ELSE i
                lo == Max2(0, Min2(n - 1, at(op[c].a)))
                hi == Max2(0, Min2(n - 1, at(op[c].b)))
                r == ret[c].items
            IN  /\ ret[c].t = "slice" /\ ret[c].e = ""
                /\ n = 0 => r = <<>>
                /\ n > 0 /\ lo > hi => r = <<>>
                /\ n > 0 /\ lo <= hi =>
                      /\ Len(r) = hi - lo + 1
                      /\ \A j \in 1..Len(r) : r[j] = l[lo + j]
                /\ op[c].a = 0 - 100 /\ op[c].b = 0 - 1 => r = l

\* LRANGE(key, -100, -1) on a 3-element list returns its 3 elements
C9_Witness ==
    \E c \in Conns :
        /\ pc[c] = "unlock" /\ op[c].f = "LRange"
        /\ op[c].a = 0 - 100 /\ op[c].b = 0 - 1
        /\ Len(SliceAt(lists, op[c].key)) = 3
        /\ ret[c].items = lists[op[c].key]

(***************************************************************************)
(* The handlers on one connection: SET with every sequence of up to        *)
(* MaxOpts option items, well-formed or not, and GET                       *)
(***************************************************************************)
sNX == <<78, 88>>
GoodItems == {<<sPX, <<49>>>>, <<sPxLower, <<48>>>>, <<sEX, <<49>>>>, <<sPX, <<Minus, 49>>>>}
\* an unknown option, PX and EX without a value, PX and EX with a value that is no number
BadItems == {<<sNX>>, <<sPX>>, <<sEX>>, <<sPX, <<97, 98, 99>>>>, <<sEX, <<49, 120>>>>}

RECURSIVE ItemSeqs(_)
ItemSeqs(n) ==
    IF n = 0 THEN {<<>>}
    ELSE ItemSeqs(n - 1)
         \cup {Append(q, i) : q \in {x \in ItemSeqs(n - 1) : Len(x) = n - 1},
                              i \in GoodItems \cup BadItems}

RECURSIVE Flatten(_)
Flatten(q) == IF q = <<>> THEN <<>> ELSE Head(q) \o Flatten(Tail(q))

InputsSet ==
    {In(<<sSET, k, v>> \o Flatten(q),
        IF \E i \in 1..Len(q) : q[i] \in BadItems THEN "bad" ELSE "good") :
            k \in Keys, v \in {vX}, q \in ItemSeqs(MaxOpts)}
    \cup {In(<<sSET>>, "bad")}
    \cup {In(<<sSET, k>>, "bad") : k \in Keys}
    \cup {In(<<sGET, k>>, "get") : k \in Keys}

NextHandlers ==
    \/ \E in \in InputsSet : Request("c1", in)
    \/ ScalarStep("c1")
    \/ WriteReply("c1", FALSE, FALSE)

SpecHandlers == Init /\ [][NextHandlers]_vars

\* C5: a SET with fewer than two arguments, with an unrecognized option token
\* anywhere in the option scan, with PX or EX and no value after it, or with a
\* PX or EX value that is no number is answered with an Error reply, calls no
\* Kv method and leaves the value table, the expiration index and the lists
\* as they were; and so does every command answered with an Error reply
C5_ErrorLeavesStore ==
    [][\A c \in Conns :
          /\ obs'[c].cls = "bad" =>
                /\ pc'[c] = "write" /\ ret'[c].t = "error"
                /\ op'[c] = NoCall
                /\ UNCHANGED <<data, exp, lists>>
          /\ ret'[c].t = "error" =>
                /\ op'[c] = NoCall /\ ~obs'[c].touched
                /\ UNCHANGED <<data, exp, lists>>]_vars

\* a SET whose option scan meets an unknown option after a valid PX pair has been
\* answered with an Error reply, on a store that holds a key with an expiration
C5_Witness ==
    /\ pc["c1"] = "write" /\ ret["c1"] = ErrorReply("invalid SET option")
    /\ Len(cmd["c1"].args) = 6
    /\ ToUpper(cmd["c1"].args[4]) = sPX /\ cmd["c1"].args[6] = sNX
    /\ cmd["c1"].args[2] \in DOMAIN data
    /\ DOMAIN exp # {}

(***************************************************************************)
(* SpecCodec: the first connection's client sends one frame, well formed   *)
(* or broken, possibly followed by a PING; the second client sends nothing *)
(***************************************************************************)
sPingLower == <<112, 105, 110, 103>>
sFOO == <<70, 79, 79>>
sHi == <<104, 105>>
sWithCRLF == <<97, CR, LF, 98>>

\* label: what the server owes the client for the frame ("reply", "error",
\* "none" for an empty command, "fatal" for a frame that cannot be decoded)
CodecBases ==
    { <<(<<sPingLower>>), "reply">>,
      <<(<<sECHO, sHi>>), "reply">>,
      <<(<<sECHO, sWithCRLF>>), "reply">>,
      <<(<<sECHO, <<>>>>), "reply">>,
      <<(<<sSET, <<97>>, <<120>>>>), "reply">>,
      <<(<<sGetLower, <<97>>>>), "reply">>,
      <<(<<sFOO>>), "error">> }

BrokenElement == {"elem_lf", "no_dollar", "empty_hdr", "short", "long", "no_crlf"}

WellFormed(f) == f.form \in {"plain", "null"}
Malformed(f) == f.form \in BrokenElement \cup {"hdr_lf"}

CodecFrames ==
    UNION { {Frame(b[1], "plain", 0, b[2]), Frame(b[1], "hdr_lf", 0, "fatal")}
            \cup {Frame(b[1], "null", i, IF i = 1 THEN "error" ELSE b[2]) : i \in 1..Len(b[1])}
            \cup {Frame(b[1], x[1], x[2], "fatal") :
                     x \in {y \in BrokenElement \X (1..Len(b[1])) :
                               y[1] = "long" => Len(b[1][y[2]]) >= 1}}
          : b \in CodecBases }

PingFrame == Frame(<<sPING>>, "plain", 0, "reply")

CodecPlans ==
    {[c \in Conns |-> IF c = "c1" THEN <<f>> ELSE <<>>] : f \in CodecFrames}
    \cup {[c \in Conns |-> IF c = "c1" THEN <<f, PingFrame>> ELSE <<>>] : f \in CodecFrames}

InitCodec == InitWith(CodecPlans)

NextCodec ==
    \/ \E c \in Conns : ReadFrame(c)
    \/ \E c \in Conns : ScalarStep(c)
    \/ \E c \in Conns : WriteReply(c, FALSE, TRUE)

SpecCodec == InitCodec /\ [][NextCodec]_vars

\* the frame the connection's last read started at, if the client sent one
LastRead(c) == hv.plan[c][hv.nread[c]]
HasRead(c) == hv.nread[c] \in 1..Len(hv.plan[c]) /\ cmd[c] # NoCmd

\* the elements a frame carries: a null element counts as the empty string
Elements(f) == [i \in 1..Len(f.elems) |-> IF f.form = "null" /\ i = f.at THEN <<>> ELSE f.elems[i]]

\* C7: in array mode, every frame whose header line or an element header
\* line does not end in CRLF, whose element header does not begin with '$'
\* (the empty line included), or whose payload is not exactly the declared
\* number of bytes followed by CRLF, is answered by decode with an error
\* value and never with a command.
C7_MalformedIsFramingError ==
    \A c \in Conns :
        (HasRead(c) /\ Malformed(LastRead(c))) => cmd[c].kind = "err"

\* the same for every broken frame other than the empty element header
C7_OtherMalformedIsFramingError ==
    \A c \in Conns :
        (HasRead(c) /\ Malformed(LastRead(c)) /\ LastRead(c).form # "empty_hdr")
            => (cmd[c].kind = "err" /\ pc[c] = "closed" /\ why[c] = "framing" /\ out[c] = <<>>)

C7_OtherWitness ==
    /\ HasRead("c1") /\ LastRead("c1").form = "no_crlf"
    /\ cmd["c1"].err = "bulk string does not end with CRLF"
    /\ pc["c1"] = "closed"

\* C10: a well-formed frame of N >= 1 elements decodes to the command whose
\* args are the element payloads in order (a null element is the empty
\* string), consumes exactly the frame's bytes, is dispatched under the
\* upper-cased first element, and encoding the decoded args and decoding
\* again gives the same args.
C10_DecodeWellFormed ==
    \A c \in Conns :
        (HasRead(c) /\ WellFormed(LastRead(c))) =>
            LET f == LastRead(c)
                args == Elements(f)
                name == ToUpper(args[1])
            IN  /\ cmd[c].kind = "ok"
                /\ cmd[c].args = args
                /\ cmd[c].rest = EncodePlan(SubSeq(hv.plan[c], hv.nread[c] + 1, Len(hv.plan[c])))
                /\ readRespArray(EncodeFrame(Frame(cmd[c].args, "plain", 0, "")))
                       = Decoded(cmd[c].args, <<>>)
                /\ (name \notin HandlerNames) <=>
                       (pc[c] = "write" /\ ret[c] = ErrorReply("unknown command"))
                /\ name = sGET => (op[c].f = "Get" /\ op[c].key = args[2])
                /\ name = sSET => (op[c].f = "SetWithTTL" /\ op[c].key = args[2])
                /\ name = sPING => (pc[c] = "write" /\ ret[c] = SimpleString(sPONG))
                /\ name = sECHO => (pc[c] = "write" /\ ret[c] = BulkString(args[2]))

C10_Witness ==
    /\ HasRead("c1") /\ hv.nread["c1"] = 1
    /\ LastRead("c1").elems = <<sGetLower, <<97>>>> /\ LastRead("c1").form = "null"
    /\ cmd["c1"].args = <<sGetLower, <<>>>>
    /\ cmd["c1"].rest = EncodeFrame(PingFrame)
    /\ op["c1"].f = "Get" /\ pc["c1"] = "unlock"

(***************************************************************************)
(* SpecConn: the first client sends up to MaxFrames frames of any kind and *)
(* closes, the second sends a PING; a write to either socket may fail      *)
(***************************************************************************)
ConnFrames ==
    { PingFrame,
      Frame(<<sPING>>, "inline", 0, "reply"),
      Frame(<<sSET, <<97>>, <<120>>>>, "plain", 0, "reply"),
      Frame(<<sGetLower, <<97>>>>, "plain", 0, "reply"),
      Frame(<<sECHO>>, "plain", 0, "error"),
      Frame(<<sFOO>>, "plain", 0, "error"),
      Frame(<<sSET, <<97>>, <<120>>, sNX>>, "plain", 0, "error"),
      Frame(<<>>, "plain", 0, "none"),
      Frame(<<>>, "inline", 0, "none"),
      Frame(<<sECHO, sHi>>, "no_dollar", 2, "fatal"),
      Frame(<<sECHO, sHi>>, "short", 2, "fatal"),
      Frame(<<sECHO, sHi>>, "empty_hdr", 2, "fatal"),
      Frame(<<>>, "neg_count", 0, "fatal") }

RECURSIVE FrameSeqs(_)
FrameSeqs(n) ==
    IF n = 0 THEN {<<>>}
    ELSE FrameSeqs(n - 1) \cup {Append(p, f) : p \in {q \in FrameSeqs(n - 1) : Len(q) = n - 1},
                                               f \in ConnFrames}

ConnPlans ==
    {[c \in Conns |-> IF c = "c1" THEN p ELSE <<PingFrame>>] : p \in FrameSeqs(MaxFrames)}

InitConn == InitWith(ConnPlans)

NextConn ==
    \/ \E c \in Conns : ReadFrame(c)
    \/ \E c \in Conns : ScalarStep(c)
    \/ \E c \in Conns, fails \in BOOLEAN : WriteReply(c, fails, TRUE)

SpecConn == InitConn /\ [][NextConn]_vars

\* the replies, by class, that the frames of a client call for, in order:
\* nothing for an empty command, nothing from a frame that cannot be decoded on
RECURSIVE Owed(_)
Owed(frames) ==
    IF frames = <<>> THEN <<>>
    ELSE LET f == Head(frames)
         IN  CASE f.label = "fatal" -> <<>>
               [] f.label = "none" -> Owed(Tail(frames))
               [] OTHER -> <<f.label>> \o Owed(Tail(frames))

Classes(replies) == [i \in 1..Len(replies) |-> IF replies[i].t = "error" THEN "error" ELSE "reply"]

IsPrefix(p, q) == Len(p) <= Len(q) /\ p = SubSeq(q, 1, Len(p))

\* C6: an unknown command, a wrong argument count and a bad option are each
\* answered with an Error reply and the connection goes on to its next
\* command; the connection task ends only on a frame it cannot decode, on a
\* failed write, or at the end of the client's stream.
C6_CommandErrorsRecoverable ==
    /\ \A c \in Conns :
          /\ pc[c] = "closed" => why[c] \in {"eof", "framing", "io"}
          /\ why[c] = "framing" => LastRead(c).label = "fatal"
          /\ why[c] = "io" => hv.failed[c]
          /\ why[c] = "eof" => inbuf[c] = <<>>
          /\ ~hv.failed[c] => IsPrefix(Classes(out[c]), Owed(hv.plan[c]))
          /\ (why[c] = "eof" /\ ~hv.failed[c]) => Classes(out[c]) = Owed(hv.plan[c])
    /\ crashed => \E c \in Conns : HasRead(c) /\ LastRead(c).label = "fatal"

C6_Witness ==
    /\ hv.plan["c1"] = <<Frame(<<sSET, <<97>>, <<120>>, sNX>>, "plain", 0, "error"), PingFrame>>
    /\ out["c1"] = <<ErrorReply("invalid SET option"), SimpleString(sPONG)>>
    /\ pc["c1"] = "closed" /\ why["c1"] = "eof"

(***************************************************************************)
(* SpecArgs: one client sends PING, ECHO, GET and RPUSH with every number  *)
(* of arguments up to MaxArgs, and SET with two                            *)
(***************************************************************************)
\* the argument lists a, a x, a x y, a x y x, ...
ArgSeqs(n) ==
    {[i \in 1..k |-> IF i = 1 THEN <<97>> ELSE IF i % 2 = 0 THEN vX ELSE vY] : k \in 0..n}

InputsArgs ==
    {In(<<name>> \o q, "args") :
        name \in {sPING, sPingLower, sECHO, sGET, sGetLower, sRPUSH}, q \in ArgSeqs(MaxArgs)}
    \cup {In(<<sSET, <<97>>, vX>>, "plain")}

NextArgs ==
    \/ \E in \in InputsArgs : (Len(in.args) >= 3 => Fits(in)) /\ Request("c1", in)
    \/ ScalarStep("c1")
    \/ RPushStep("c1")
    \/ WriteReply("c1", FALSE, FALSE)

SpecArgs == Init /\ [][NextArgs]_vars

\* the command a connection is working on: its name and its arguments
Busy(c) == cmd[c].kind = "ok" /\ Len(cmd[c].args) >= 1
NameOf(c) == ToUpper(cmd[c].args[1])
ArgsOf(c) == Tail(cmd[c].args)

\* the handler has answered by itself, without a call of a Kv method
Unexecuted(c) == pc[c] = "write" /\ op[c] = NoCall /\ ~obs[c].touched

\* C12: PING without argument is answered Simple("PONG") and with one
\* argument Bulk(arg); ECHO with one argument Bulk(arg) and with any other
\* number an Error; GET with any number but one an Error; RPUSH with fewer
\* than two an Error; and a command with a number of arguments outside its
\* contract calls no Kv method.
C12_ArgumentCounts ==
    \A c \in Conns : Busy(c) =>
        LET n == Len(ArgsOf(c))
        IN  /\ (NameOf(c) = sPING /\ n = 0) => (Unexecuted(c) /\ ret[c] = SimpleString(sPONG))
            /\ (NameOf(c) = sPING /\ n = 1) => (Unexecuted(c) /\ ret[c] = BulkString(ArgsOf(c)[1]))
            /\ (NameOf(c) = sPING /\ n > 1) => Unexecuted(c)
            /\ (NameOf(c) = sECHO /\ n = 1) => (Unexecuted(c) /\ ret[c] = BulkString(ArgsOf(c)[1]))
            /\ (NameOf(c) = sECHO /\ n # 1) => (Unexecuted(c) /\ ret[c].t = "error")
            /\ (NameOf(c) = sGET /\ n # 1) => (Unexecuted(c) /\ ret[c].t = "error")
            /\ (NameOf(c) = sGET /\ n = 1) => (op[c].f = "Get" /\ op[c].key = ArgsOf(c)[1])
            /\ (NameOf(c) = sRPUSH /\ n < 2) => (Unexecuted(c) /\ ret[c].t = "error")
            /\ (NameOf(c) = sRPUSH /\ n >= 2) =>
                   (op[c].f = "RPush" /\ op[c].key = ArgsOf(c)[1] /\ op[c].vals = Tail(ArgsOf(c)))

\* a get with two arguments has been refused on a store that holds a key and a list
C12_Witness ==
    /\ Busy("c1") /\ cmd["c1"].args = <<sGetLower, <<97>>, vX>>
    /\ ret["c1"] = ErrorReply("GET requires exactly one argument")
    /\ DOMAIN data # {} /\ DOMAIN lists # {}

(***************************************************************************)
(* SpecStore: SET with and without PX, GET and RPUSH on one key from two   *)
(* connections, the sweeper and the clock                                  *)
(***************************************************************************)
InputsStore(c) ==
    IF c = "c1"
    THEN {In(<<sSET, <<97>>, vX>>, "plain"),
          In(<<sGetLower, <<97>>>>, "get"),
          In(<<sRPUSH, <<97>>, vX>>, "push")}
    ELSE {In(<<sSET, <<97>>, vY, sPX, <<49>>>>, "ttl"),
          In(<<sGET, <<97>>>>, "get"),
          In(<<sRPUSH, <<97>>, vX>>, "push")}

NextStore ==
    \/ \E c \in Conns : \E in \in InputsStore(c) : Fits(in) /\ Request(c, in)
    \/ \E c \in Conns : ScalarStep(c)
    \/ \E c \in Conns : ExpiryStep(c)
    \/ \E c \in Conns : RPushStep(c)
    \/ \E c \in Conns : WriteReply(c, FALSE, FALSE)
    \/ SweepStep
    \/ Tick

SpecStore == Init /\ [][NextStore]_vars

\* C14: every key of the expiration index is a key of the value table,
\* whenever no Get and no sweeper is between its delete of the value and its
\* delete of the expiration entry (which it does without releasing the
\* mutex), so in every state that a store operation starts from or ends in
C14_ExpiringKeysHaveValues ==
    \A k \in DOMAIN exp :
        \/ k \in DOMAIN data
        \/ mu # Free /\ Midwrite(k)

\* the sweeper, in its pass, has removed the key from both maps, after pushes
\* to the key's list
C14_Witness ==
    /\ mu = Sweeper /\ sw.pc = "range" /\ Swept # {}
    /\ DOMAIN lists # {}
    /\ \E c \in Conns : pc[c] = "lock" /\ op[c].f = "SetWithTTL"

\* a connection is inside a Kv method, between k.mu.Lock() and k.mu.Unlock()
InKv(c) ==
    pc[c] \in {"set46", "set47", "get65", "get68", "get69", "get73",
               "rpush82r", "rpush82w", "rpush83", "unlock"}

\* the sweeper is in its pass, between Lock and Unlock
InPass == sw.pc \in {"range", "del201", "del202"}

Inside == {c \in Conns : InKv(c)} \cup (IF InPass THEN {Sweeper} ELSE {})

\* the scalar store as a whole operation leaves it: each key of the value
\* table has the value and the expiration entry of its last SET, and the
\* expiration index has no other key
Whole ==
    /\ DOMAIN exp \subseteq DOMAIN data
    /\ DOMAIN data = DOMAIN hv.last
    /\ \A k \in DOMAIN hv.last :
          /\ data[k] = hv.last[k].val
          /\ k \in DOMAIN exp <=> hv.last[k].ttl > 0

\* C15: at most one of Get, SetWithTTL, RPush and the sweeper's pass is
\* inside the mutex, and it is the one the mutex records; an operation that
\* has just taken the mutex, and every state with the mutex free, sees the
\* store as whole operations left it (no value without its expiration entry,
\* no key deleted from one map only, no list between its read and its write);
\* and a connection that reads from or writes to its socket does not hold
\* the mutex
C15_MutualExclusion ==
    /\ Cardinality(Inside) <= 1
    /\ Inside = (IF mu = Free THEN {} ELSE {mu})
    /\ \A c \in Conns : pc[c] \in {"set46", "get65"} => (Whole /\ lists = hv.hist)
    /\ \A c \in Conns : pc[c] = "rpush82r" =>
           /\ Whole
           /\ Put(lists, op[c].key, SliceAt(lists, op[c].key) \o op[c].vals) = hv.hist
    /\ (sw.pc = "range" /\ sw.todo = DOMAIN hv.pass.exp /\ Swept = {}) =>
           (Whole /\ lists = hv.hist)
    /\ mu = Free => (Whole /\ lists = hv.hist)
    /\ \A c \in Conns : pc[c] \in {"read", "write", "closed"} => mu # c

\* a SetWithTTL is between its two writes while the other connection and the
\* sweeper wait for the mutex
C15_Witness ==
    /\ pc["c2"] = "set47" /\ pc["c1"] = "lock" /\ sw.pc = "lock"
    /\ DOMAIN lists # {}

(***************************************************************************)
(* SpecPush: two connections RPUSH to one key that is absent at first, one *)
(* value at a time or, the first connection, also two                      *)
(***************************************************************************)
InputsPush(c) ==
    IF c = "c1"
    THEN {In(<<sRPUSH, kL, vX>>, "push"), In(<<sRPUSH, kL, vX, vY>>, "push")}
    ELSE {In(<<sRPUSH, kL, vZ>>, "push")}

NextPush ==
    \/ \E c \in Conns : \E in \in InputsPush(c) : Fits(in) /\ Request(c, in)
    \/ \E c \in Conns : Lock(c)
    \/ \E c \in Conns : RPushStep(c)
    \/ \E c \in Conns : Unlock(c)
    \/ \E c \in Conns : WriteReply(c, FALSE, FALSE)

SpecPush == Init /\ [][NextPush]_vars

\* an RPush has returned and its connection has not written the reply yet
Pushed(c) == pc[c] \in {"unlock", "write"} /\ op[c].f = "RPush"

\* the number of values that the first i returned pushes have pushed
RECURSIVE PushedBy(_, _)
PushedBy(l, i) == IF i = 0 THEN 0 ELSE PushedBy(l, i - 1) + l[i].k

\* C16: an RPUSH leaves at the key the list it found followed by its values
\* in order, and returns, and its connection replies, the length of that
\* list; so on a key that was absent at first the i-th length returned counts
\* the values pushed up to it, and when every RPUSH pushes one value the
\* lengths returned are 1, 2, ..., N, each once
C16_RPushLengths ==
    /\ \A c \in Conns :
          pc[c] = "unlock" /\ op[c].f = "RPush" =>
              /\ lists[op[c].key] = obs[c].prev \o op[c].vals
              /\ ret[c] = Length(Len(obs[c].prev) + Len(op[c].vals))
    /\ \A c \in Conns :
          pc[c] = "write" /\ op[c].f = "RPush" =>
              ret[c] = integer(Len(obs[c].prev) + Len(op[c].vals))
    /\ \A key \in DOMAIN hv.lens :
          LET l == hv.lens[key]
          IN  /\ \A i \in 1..Len(l) : l[i].n = PushedBy(l, i)
              /\ (\A i \in 1..Len(l) : l[i].k = 1) => \A i \in 1..Len(l) : l[i].n = i

\* both connections have pushed one value each to the absent key at the same
\* time and hold the lengths 1 and 2, and a third push has returned 3
C16_Witness ==
    /\ Pushed("c1") /\ Pushed("c2")
    /\ Len(hv.lens[kL]) = 3 /\ \A i \in 1..3 : hv.lens[kL][i] = [n |-> i, k |-> 1]
    /\ {ret["c1"].n, ret["c2"].n} = {2, 3}

\* the frames of a client that call for a reply, in order, up to the first
\* frame that cannot be decoded
RECURSIVE Commands(_)
Commands(frames) ==
    IF frames = <<>> THEN <<>>
    ELSE LET f == Head(frames)
         IN  CASE f.label = "fatal" -> <<>>
               [] f.label = "none" -> Commands(Tail(frames))
               [] OTHER -> <<f>> \o Commands(Tail(frames))

\* the frames the connection has read so far
ReadSoFar(c) == SubSeq(hv.plan[c], 1, Min2(hv.nread[c], Len(hv.plan[c])))

\* reply is the reply that frame f calls for
Answers(reply, f) ==
    LET name == ToUpper(f.elems[1])
    IN  IF f.label = "error" THEN reply.t = "error"
        ELSE CASE name = sPING -> reply = SimpleString(sPONG)
               [] name = sSET -> reply = SimpleString(sOK)
               [] name = sGET -> reply.t \in {"bulk", "nil"}
               [] OTHER -> FALSE

\* C17: as long as no write has failed, a connection has written one reply
\* for each non-empty command it has read and finished, in the order of the
\* commands; a frame of zero elements gets no reply, calls no Kv method and
\* leaves the connection in its read loop
C17_OneReplyPerCommand ==
    \A c \in Conns :
        /\ ~hv.failed[c] =>
              /\ Len(out[c]) = Len(Commands(ReadSoFar(c)))
                                  - (IF pc[c] \in {"read", "closed"} THEN 0 ELSE 1)
              /\ \A i \in 1..Len(out[c]) : Answers(out[c][i], Commands(ReadSoFar(c))[i])
        /\ (HasRead(c) /\ LastRead(c).label = "none") =>
              /\ pc[c] = "read" /\ why[c] = ""
              /\ op[c] = NoCall /\ ret[c] = NoVal /\ mu # c

\* SET and then get on one connection have been answered OK and then the value
C17_Witness ==
    /\ Len(hv.plan["c1"]) = 2 /\ hv.plan["c1"][2].elems = <<sGetLower, <<97>>>>
    /\ out["c1"] = <<SimpleString(sOK), BulkString(vX)>>
    /\ pc["c1"] = "closed"

\* an empty command has been passed over and the PING after it answered
C17_EmptyWitness ==
    /\ hv.plan["c1"] = <<Frame(<<>>, "plain", 0, "none"), PingFrame>>
    /\ out["c1"] = <<SimpleString(sPONG)>>
    /\ out["c2"] = <<SimpleString(sPONG)>>

\* C18, as stated: once the write or the flush of any reply has failed, the
\* Error reply to an unknown command or to a handler error included, the
\* connection task has ended with that failure and reads and executes nothing
\* more
C18_WriteFailureIsFatal ==
    \A c \in Conns : hv.failed[c] => (pc[c] = "closed" /\ why[c] = "io")

\* a connection whose write has failed is inside SetWithTTL with a later command
C18_ExecutesAfterFailure ==
    \E c \in Conns : hv.failed[c] /\ pc[c] = "set47"

\* C19, as stated: a frame that cannot be decoded, an array header with a
\* negative count and an empty element-header line included, ends at most
\* the task of the connection it came on, as a framing error, and everything
\* else keeps running
C19_MalformedIsolated ==
    \A c \in Conns :
        (HasRead(c) /\ LastRead(c).label = "fatal") =>
            (~crashed /\ pc[c] = "closed" /\ why[c] = "framing")

\* the same for the frames on which readRespArray returns an error
C19_FramingErrorIsolated ==
    \A c \in Conns :
        (HasRead(c) /\ LastRead(c).form \in {"no_dollar", "short"}) =>
            /\ ~crashed /\ pc[c] = "closed" /\ why[c] = "framing"
            /\ op[c] = NoCall /\ mu # c

(***************************************************************************)
(* SpecLive: SET with PX and RPUSH from one connection and GET from the    *)
(* other, for ever or until a write to the other fails, the sweeper and    *)
(* the clock, under the scheduling that Go gives: a goroutine that can run *)
(* does run, and sync.Mutex hands the mutex to a goroutine that has waited *)
(* (starvation mode), so no waiter is passed over for ever.  Nothing is    *)
(* assumed of the clients, the sockets, the ticker and the clock.          *)
(***************************************************************************)
InputsLive(c) ==
    IF c = "c1"
    THEN {In(<<sSET, <<97>>, vX, sPxLower, <<49>>>>, "ttl"),
          In(<<sRPUSH, <<97>>, vX>>, "push")}
    ELSE {In(<<sGET, <<97>>>>, "get")}

NextLive ==
    \/ \E c \in Conns : \E in \in InputsLive(c) : Fits(in) /\ Request(c, in)
    \/ \E c \in Conns : ScalarStep(c)
    \/ \E c \in Conns : ExpiryStep(c)
    \/ \E c \in Conns : RPushStep(c)
    \/ \E c \in Conns : WriteReply(c, FALSE, FALSE)
    \/ WriteReply("c2", TRUE, FALSE)
    \/ SweepStep
    \/ Tick

\* the steps of a Kv method between Lock and the return
Body(c) ==
    \/ SetData(c) \/ SetExp(c)
    \/ GetCheck(c) \/ GetRead(c) \/ GetDelData(c) \/ GetDelExp(c)
    \/ RPushStep(c)
    \/ Unlock(c)

\* the steps of the sweeper's pass between Lock and Unlock
Pass ==
    \/ \E k \in DOMAIN exp : SweepVisit(k)
    \/ SweepDelData \/ SweepDelExp \/ SweepUnlock

Fairness ==
    /\ \A c \in Conns : SF_vars(Lock(c)) /\ WF_vars(Body(c))
    /\ SF_vars(SweepLock) /\ WF_vars(Pass)

SpecLive == Init /\ [][NextLive]_vars /\ Fairness

\* C20: whoever holds the mutex releases it, so every call of a Kv method
\* that waits for the mutex returns and the sweeper's pass ends, however the
\* other connection and the sweeper go on; and a connection task that has
\* ended does not hold the mutex
C20_LockProgress ==
    /\ \A c \in Conns : (pc[c] = "lock") ~> (pc[c] = "write")
    /\ (sw.pc = "lock") ~> (sw.pc = "sleep")
    /\ \A h \in Conns \cup {Sweeper} : (mu = h) ~> (mu # h)
    /\ [](\A c \in Conns : pc[c] = "closed" => mu # c)

\* a call waits for the mutex while the sweeper, in its pass, is deleting an
\* expired key, and the other connection has ended on a failed write
C20_Witness ==
    /\ pc["c1"] = "lock" /\ mu = Sweeper /\ sw.pc = "del202"
    /\ pc["c2"] = "closed" /\ why["c2"] = "io"

===========================================================================
